---------------------------- MODULE Spec2Model ----------------------------
(***************************************************************************)
(* A model of scripts/animate.py: the matting-method resolution, the       *)
(* geometry plan, the key-colour search, the solid-background detector     *)
(* and the run of animate() with its external calls and temporary          *)
(* directories.                                                            *)
(*                                                                         *)
(* An image is a record [w, h, mode, px]: px is the row-major sequence of  *)
(* w*h pixels <<r, g, b, a>>; an image of mode "RGB" carries a = 255 in    *)
(* every pixel.  A colour is <<r, g, b>>.  A hex string is the sequence of *)
(* its characters.  <<>> stands for Python's None where a colour or a hex  *)
(* string is expected.                                                     *)
(***************************************************************************)
EXTENDS Integers, Sequences, FiniteSets, TLC

VARIABLES
    env,            \* [token, ffmpeg, image_exists, mask]: what the run finds outside
    args,           \* [asset_type, method, model, loop, mask]: animate()'s arguments
    image,          \* the decoded source image
    pc,             \* position of the run (or of the pure-function call)
    src_w, src_h,   \* src.size
    has_alpha,      \* line 179-183
    plan,           \* oversized_w/h, crop_w/h of lines 185-193
    method,         \* the local `method`, rebound by the resolution
    detected_bg,    \* line 198 / 208
    detected_hex,   \* line 208
    mask_path,      \* "none", "given" (the caller's file) or "converted" (line 230)
    tmpdirs,        \* temporary directories that exist on disk
    key_color,      \* line 253 / 259 / 264
    key_hex,        \* line 254 / 260 / 264
    gen_image_path, \* "source" or "baked" (line 252 / 268)
    baked,          \* content of baked_bg.png
    calls,          \* external calls made so far, in order, with their outcome
    ffmpeg_cmd,     \* the final encoder command (lines 333-406)
    output_written, \* a file exists at output_path
    reported,       \* "Done! Output: ..." was printed (line 414)
    status,         \* "running", "success" or "failure"
    result          \* return value of the pure function applied

vars == <<env, args, image, pc, src_w, src_h, has_alpha, plan, method,
          detected_bg, detected_hex, mask_path, tmpdirs, key_color, key_hex,
          gen_image_path, baked, calls, ffmpeg_cmd, output_written, reported,
          status, result>>

----------------------------------------------------------------------------
(* Bounds of the model *)

MaxKeyPixels == 3    \* pixels of an image given to find_key_color
MaxSide == 3         \* width and height of an image given to the detector
MaxCells == 9        \* pixels of an image given to the detector
MaxDim == 760        \* largest source width/height given to the geometry plan

(* Program constants *)

AlphaThreshold == 128      \* a > 128
Tolerance == 30            \* tolerance=30
MinEdgeRatioNum == 13      \* min_edge_ratio=0.65 = 13/20
MinEdgeRatioDen == 20
MaxOutputSide == 720       \* min(src_w, 720)

NoColor == <<>>
NoHex == <<>>
NoImage == [w |-> 0, h |-> 0, mode |-> "RGB", px |-> <<>>]
NoPlan == [oversized_w |-> 0, oversized_h |-> 0, crop_w |-> 0, crop_h |-> 0]
NoCmd == [kind |-> "none", scale_w |-> 0, scale_h |-> 0, crop_w |-> 0, crop_h |-> 0,
          key |-> NoHex]

Min(a, b) == IF a < b THEN a ELSE b

----------------------------------------------------------------------------
(* f'0x{r:02X}{g:02X}{b:02X}' *)

HexDigits == <<"0", "1", "2", "3", "4", "5", "6", "7",
               "8", "9", "A", "B", "C", "D", "E", "F">>

Hex02X(n) == <<HexDigits[(n \div 16) + 1], HexDigits[(n % 16) + 1]>>

HexStr(c) == <<"0", "x">> \o Hex02X(c[1]) \o Hex02X(c[2]) \o Hex02X(c[3])

(* Image.convert('RGBA') / Image.convert('RGB') *)

ConvertRGBA(img) == [img EXCEPT !.mode = "RGBA"]

ConvertRGB(img) ==
    [img EXCEPT !.mode = "RGB",
                !.px = [i \in 1..Len(img.px) |->
                          <<img.px[i][1], img.px[i][2], img.px[i][3], 255>>]]

(* (r - cr)**2 + (g - cg)**2 + (b - cb)**2: the argument of math.sqrt.     *)
(* math.sqrt is strictly increasing on the integers 0..195075 and          *)
(* sqrt(900) = 30.0 exactly, so every comparison the code makes between    *)
(* distances is the comparison of these squares.                           *)
DistSq(p, c) ==
    (p[1] - c[1]) * (p[1] - c[1]) + (p[2] - c[2]) * (p[2] - c[2])
        + (p[3] - c[3]) * (p[3] - c[3])

----------------------------------------------------------------------------
(* find_key_color, lines 62-97 *)

Candidates == << <<0, 255, 255>>,     \* cyan
                 <<255, 0, 255>>,     \* magenta
                 <<0, 0, 255>>,       \* blue
                 <<255, 0, 0>>,       \* red
                 <<255, 20, 147>> >>  \* hot pink

Opaque(img) ==
    LET rgba == ConvertRGBA(img).px
        keep(p) == p[4] > AlphaThreshold
        sel == SelectSeq(rgba, keep)
    IN  [i \in 1..Len(sel) |-> <<sel[i][1], sel[i][2], sel[i][3]>>]

(* float('inf'): above every squared distance between two colours *)
Infinity == 3 * 255 * 255 + 1

(* the inner loop, lines 86-90 *)
RECURSIVE MinDistFrom(_, _, _, _)
MinDistFrom(c, opaque, i, min_dist) ==
    IF i > Len(opaque) THEN min_dist
    ELSE LET dist == DistSq(opaque[i], c)
         IN  MinDistFrom(c, opaque, i + 1,
                         IF dist < min_dist THEN dist ELSE min_dist)

MinDist(c, opaque) == MinDistFrom(c, opaque, 1, Infinity)

KeyBetter_NonStrict(min_dist, best_dist) == min_dist >= best_dist

(* line 91: if min_dist > best_dist *)
KeyBetter(min_dist, best_dist) == min_dist > best_dist

(* the outer loop, lines 85-93: best_color = None, best_dist = -1 *)
RECURSIVE KeyScan(_, _, _, _)
KeyScan(opaque, i, best_color, best_dist) ==
    IF i > Len(Candidates) THEN best_color
    ELSE LET min_dist == MinDist(Candidates[i], opaque)
         IN  IF KeyBetter(min_dist, best_dist)
             THEN KeyScan(opaque, i + 1, Candidates[i], min_dist)
             ELSE KeyScan(opaque, i + 1, best_color, best_dist)

FindKeyColor(img) ==
    LET opaque == Opaque(img)
    IN  IF opaque = <<>>
        THEN [color |-> <<0, 255, 255>>,
              hex |-> <<"0", "x", "0", "0", "F", "F", "F", "F">>]
        ELSE LET best_color == KeyScan(opaque, 1, NoColor, -1)
             IN  [color |-> best_color, hex |-> HexStr(best_color)]

----------------------------------------------------------------------------
(* detect_solid_background, lines 100-140 *)

PixelAt(img, x, y) ==
    LET p == img.px[y * img.w + x + 1] IN <<p[1], p[2], p[3]>>

(* lines 108-114: the order in which the code appends the edge pixels *)
EdgePixels(img) ==
    LET w == img.w
        h == img.h
        rows == [i \in 1..(2 * w) |->
                    IF i % 2 = 1 THEN PixelAt(img, (i - 1) \div 2, 0)
                                 ELSE PixelAt(img, (i - 2) \div 2, h - 1)]
        ncol == IF h > 2 THEN h - 2 ELSE 0
        cols == [i \in 1..(2 * ncol) |->
                    IF i % 2 = 1 THEN PixelAt(img, 0, (i + 1) \div 2)
                                 ELSE PixelAt(img, w - 1, i \div 2)]
    IN  rows \o cols

CountOf(seq, c) == Cardinality({i \in 1..Len(seq) : seq[i] = c})

(* Counter(edge_pixels).most_common(1)[0]: the largest count; among equal  *)
(* counts the colour inserted first.                                       *)
MostCommon(seq) ==
    LET best == CHOOSE i \in 1..Len(seq) :
                   /\ \A j \in 1..Len(seq) : CountOf(seq, seq[j]) <= CountOf(seq, seq[i])
                   /\ \A j \in 1..(i - 1) : CountOf(seq, seq[j]) < CountOf(seq, seq[i])
    IN  seq[best]

(* lines 128-132; dist <= tolerance *)
CloseCount(seq, dominant) ==
    Cardinality({i \in 1..Len(seq) :
                    DistSq(seq[i], dominant) <= Tolerance * Tolerance})

(* lines 134-135: close_count / len(edge_pixels) >= 0.65.  The quotient of *)
(* two integers below 2^31 is never within a rounding error of 13/20       *)
(* unless it equals 13/20, so the float comparison is this one.            *)
RatioMet(close_count, n) == MinEdgeRatioDen * close_count >= MinEdgeRatioNum * n

DetectSolidBackground(img) ==
    LET edge_pixels == EdgePixels(ConvertRGB(img))
    IN  IF edge_pixels = <<>>
        THEN [color |-> NoColor, hex |-> NoHex]
        ELSE LET dominant_color == MostCommon(edge_pixels)
                 close_count == CloseCount(edge_pixels, dominant_color)
             IN  IF RatioMet(close_count, Len(edge_pixels))
                 THEN [color |-> dominant_color, hex |-> HexStr(dominant_color)]
                 ELSE [color |-> NoColor, hex |-> NoHex]

----------------------------------------------------------------------------
(* The geometry plan, lines 185-193 *)

(* 1.15 is the double 5179139571476070 / 2^52.  Its 53-bit significand in  *)
(* base 2^13, least significant limb first.                                *)
LimbBase == 8192
Significand115 == <<1638, 4915, 6553, 1228, 1>>

RECURSIVE FloorLog2(_)
FloorLog2(n) == IF n < 2 THEN 0 ELSE 1 + FloorLog2(n \div 2)

RECURSIVE Pow2(_)
Pow2(k) == IF k = 0 THEN 1 ELSE 2 * Pow2(k - 1)

(* int(c * 1.15) for 1 <= c < 2^13: the exact product c * significand is   *)
(* q * 2^52 + r; the double product rounds it to 53 significant bits (ties *)
(* to even) and int() truncates.  The rounded product reaches q + 1        *)
(* exactly when 2^52 - r is at most half a unit in the last place.         *)
IntTimes115(c) ==
    LET t0 == c * Significand115[1]
        t1 == c * Significand115[2] + (t0 \div LimbBase)
        t2 == c * Significand115[3] + (t1 \div LimbBase)
        t3 == c * Significand115[4] + (t2 \div LimbBase)
        q  == c * Significand115[5] + (t3 \div LimbBase)
        k  == FloorLog2(q)
        topOnes == /\ t3 % LimbBase = LimbBase - 1
                   /\ t2 % LimbBase = LimbBase - 1
                   /\ t1 % LimbBase = LimbBase - 1
        gapLow == LimbBase - (t0 % LimbBase)    \* 2^52 - r when topOnes
    IN  IF k >= 1 /\ topOnes /\ gapLow <= Pow2(k - 1) THEN q + 1 ELSE q

(* x += x % 2 *)
EvenUp(x) == x + (x % 2)

GeometryPlan(w, h) ==
    LET cap_w == Min(w, MaxOutputSide)
        cap_h == Min(h, MaxOutputSide)
    IN  [oversized_w |-> EvenUp(IntTimes115(cap_w)),
         oversized_h |-> EvenUp(IntTimes115(cap_h)),
         crop_w |-> EvenUp(cap_w),
         crop_h |-> EvenUp(cap_h)]

----------------------------------------------------------------------------
(* Values of the run's variables outside a run of animate(): the pure      *)
(* functions are applied with these held fixed.                            *)

NoResult == [color |-> NoColor, hex |-> NoHex]

RunIdle ==
    /\ env = [token |-> TRUE, ffmpeg |-> TRUE, image_exists |-> TRUE, mask |-> "none"]
    /\ args = [asset_type |-> "character", method |-> "auto", model |-> "kling",
               loop |-> "None", mask |-> FALSE]
    /\ has_alpha = FALSE
    /\ method = "auto"
    /\ detected_bg = NoColor
    /\ detected_hex = NoHex
    /\ mask_path = "none"
    /\ tmpdirs = {}
    /\ key_color = NoColor
    /\ key_hex = NoHex
    /\ gen_image_path = "source"
    /\ baked = NoImage
    /\ calls = <<>>
    /\ ffmpeg_cmd = NoCmd
    /\ output_written = FALSE
    /\ reported = FALSE
    /\ status = "running"

runVars == <<env, args, has_alpha, method, detected_bg, detected_hex, mask_path,
             tmpdirs, key_color, key_hex, gen_image_path, baked, calls,
             ffmpeg_cmd, output_written, reported, status>>

----------------------------------------------------------------------------
(* find_key_color applied to every small RGBA image *)

White == <<255, 255, 255>>
Black == <<0, 0, 0>>

KeyColors == {Candidates[i] : i \in 1..Len(Candidates)} \cup {White, Black}
KeyAlphas == {AlphaThreshold, AlphaThreshold + 1}
KeyPixels == {<<c[1], c[2], c[3], a>> : c \in KeyColors, a \in KeyAlphas}

KeyImages(maxPixels) ==
    UNION {{[w |-> n, h |-> 1, mode |-> "RGBA", px |-> s] : s \in [1..n -> KeyPixels]}
             : n \in 1..maxPixels}

InitKey ==
    /\ image \in KeyImages(MaxKeyPixels)
    /\ pc = "call"
    /\ result = NoResult
    /\ src_w = 0 /\ src_h = 0
    /\ plan = NoPlan
    /\ RunIdle

CallFindKeyColor ==
    /\ pc = "call"
    /\ result' = FindKeyColor(image)
    /\ pc' = "returned"
    /\ UNCHANGED <<image, src_w, src_h, plan, runVars>>

NextKey == CallFindKeyColor

SpecKey == InitKey /\ [][NextKey]_vars

----------------------------------------------------------------------------
(* detect_solid_background applied to every small RGB image *)

NearWhite == <<255, 255, 225>>   \* at distance 30 of white
OffWhite == <<255, 255, 224>>    \* at distance 31 of white

DetColors == {White, NearWhite, OffWhite}
DetPixels == {<<c[1], c[2], c[3], 255>> : c \in DetColors}

DetShapes(maxSide, maxCells) ==
    {s \in (1..maxSide) \X (1..maxSide) : s[1] * s[2] <= maxCells}

DetImages(maxSide, maxCells) ==
    UNION {{[w |-> s[1], h |-> s[2], mode |-> "RGB", px |-> q]
              : q \in [1..(s[1] * s[2]) -> DetPixels]} : s \in DetShapes(maxSide, maxCells)}

InitDetect ==
    /\ image \in DetImages(MaxSide, MaxCells)
    /\ pc = "call"
    /\ result = NoResult
    /\ src_w = 0 /\ src_h = 0
    /\ plan = NoPlan
    /\ RunIdle

CallDetectSolidBackground ==
    /\ pc = "call"
    /\ result' = DetectSolidBackground(image)
    /\ pc' = "returned"
    /\ UNCHANGED <<image, src_w, src_h, plan, runVars>>

NextDetect == CallDetectSolidBackground

SpecDetect == InitDetect /\ [][NextDetect]_vars

----------------------------------------------------------------------------
(* The geometry plan applied to source sizes up to MaxDim on one axis and  *)
(* a sample of sizes on the other.                                         *)

AxisSamples == {1, 2, 100, 500, 720, 1000}

InitGeometry ==
    /\ \E s \in ((1..MaxDim) \X AxisSamples) \cup (AxisSamples \X (1..MaxDim)) :
          src_w = s[1] /\ src_h = s[2]
    /\ image = NoImage
    /\ pc = "call"
    /\ result = NoResult
    /\ plan = NoPlan
    /\ RunIdle

CallGeometryPlan ==
    /\ pc = "call"
    /\ plan' = GeometryPlan(src_w, src_h)
    /\ pc' = "returned"
    /\ UNCHANGED <<image, src_w, src_h, result, runVars>>

NextGeometry == CallGeometryPlan

SpecGeometry == InitGeometry /\ [][NextGeometry]_vars

----------------------------------------------------------------------------
(* animate(), lines 153-422 *)

(* lines 179-183: mode RGBA and alpha.getextrema() with min != max *)
AlphaExtrema(img) ==
    LET as == {img.px[i][4] : i \in 1..Len(img.px)}
    IN  <<CHOOSE a \in as : \A b \in as : a <= b,
          CHOOSE a \in as : \A b \in as : a >= b>>

HasRealAlpha_ModeOnly(img) == img.mode = "RGBA"

HasRealAlpha(img) ==
    /\ img.mode = "RGBA"
    /\ AlphaExtrema(img)[1] # AlphaExtrema(img)[2]

(* lines 198-215: the method after the resolution, with detected_bg and    *)
(* detected_hex                                                            *)
ResolveMethod(m, mask, asset_type, alpha, img) ==
    IF m # "auto" THEN [method |-> m, color |-> NoColor, hex |-> NoHex]
    ELSE IF mask THEN [method |-> "mask", color |-> NoColor, hex |-> NoHex]
    ELSE IF asset_type = "background"
         THEN [method |-> "background", color |-> NoColor, hex |-> NoHex]
    ELSE IF alpha THEN [method |-> "chromakey", color |-> NoColor, hex |-> NoHex]
    ELSE LET d == DetectSolidBackground(img)
         IN  IF d.color # NoColor
             THEN [method |-> "chromakey", color |-> d.color, hex |-> d.hex]
             ELSE [method |-> "sam3", color |-> NoColor, hex |-> NoHex]

(* bake_background, lines 143-150: paste through the image's own alpha     *)
(* (Pillow blends each band as round((bg*(255-a) + src*a) / 255)), then    *)
(* convert to RGB.                                                         *)
Blend8(bg, src, a) ==
    LET t == bg * (255 - a) + src * a + 128
    IN  ((t \div 256) + t) \div 256

BakeBackground(img, key) ==
    [w |-> img.w, h |-> img.h, mode |-> "RGB",
     px |-> [i \in 1..Len(img.px) |->
               LET p == ConvertRGBA(img).px[i]
               IN  <<Blend8(key[1], p[1], p[4]), Blend8(key[2], p[2], p[4]),
                     Blend8(key[3], p[3], p[4]), 255>>]]

(* lines 156-157 *)
Loop == IF args.loop = "None" THEN args.asset_type = "background"
        ELSE args.loop = "True"

Exit(code) ==
    /\ pc' = "done"
    /\ status' = IF code = 0 THEN "success" ELSE "failure"

(* an exception or sys.exit inside the try block: control goes to finally *)
Raise ==
    /\ pc' = "finally"
    /\ status' = "failure"

(* lines 159-173 *)
CheckPreconditions ==
    /\ pc = "start"
    /\ IF ~env.token \/ ~env.ffmpeg \/ ~env.image_exists
       THEN Exit(1)
       ELSE pc' = "inspect" /\ UNCHANGED status
    /\ UNCHANGED <<env, args, image, src_w, src_h, has_alpha, plan, method,
                   detected_bg, detected_hex, mask_path, tmpdirs, key_color,
                   key_hex, gen_image_path, baked, calls, ffmpeg_cmd,
                   output_written, reported, result>>

(* lines 177-215 *)
InspectAndResolve ==
    /\ pc = "inspect"
    /\ src_w' = image.w
    /\ src_h' = image.h
    /\ has_alpha' = HasRealAlpha(image)
    /\ plan' = GeometryPlan(image.w, image.h)
    /\ LET r == ResolveMethod(method, args.mask, args.asset_type,
                              HasRealAlpha(image), image)
       IN  /\ method' = r.method
           /\ detected_bg' = r.color
           /\ detected_hex' = r.hex
    /\ pc' = "maskcheck"
    /\ UNCHANGED <<env, args, image, mask_path, tmpdirs, key_color, key_hex,
                   gen_image_path, baked, calls, ffmpeg_cmd, output_written,
                   reported, status, result>>

MaskMissing_Never == FALSE

(* line 217: mask_path and not os.path.exists(mask_path) *)
MaskMissing == args.mask /\ env.mask = "missing"

(* lines 217-219 *)
CheckMask ==
    /\ pc = "maskcheck"
    /\ IF MaskMissing
       THEN Exit(1)
       ELSE pc' = "maskprep" /\ UNCHANGED status
    /\ UNCHANGED <<env, args, image, src_w, src_h, has_alpha, plan, method,
                   detected_bg, detected_hex, mask_path, tmpdirs, key_color,
                   key_hex, gen_image_path, baked, calls, ffmpeg_cmd,
                   output_written, reported, result>>

(* lines 222-238: a mask that is not RGBA is converted into a fresh        *)
(* temporary directory "char-anim-mask-"                                   *)
PrepareMask ==
    /\ pc = "maskprep"
    /\ IF args.mask /\ env.mask # "rgba"
       THEN /\ tmpdirs' = tmpdirs \cup {"char-anim-mask-"}
            /\ mask_path' = "converted"
       ELSE UNCHANGED <<tmpdirs, mask_path>>
    /\ pc' = "mkdtemp"
    /\ UNCHANGED <<env, args, image, src_w, src_h, has_alpha, plan, method,
                   detected_bg, detected_hex, key_color, key_hex,
                   gen_image_path, baked, calls, ffmpeg_cmd, output_written,
                   reported, status, result>>

(* lines 240-248 *)
MakeTmpdir ==
    /\ pc = "mkdtemp"
    /\ tmpdirs' = tmpdirs \cup {"char-anim-"}
    /\ pc' = "bake"
    /\ UNCHANGED <<env, args, image, src_w, src_h, has_alpha, plan, method,
                   detected_bg, detected_hex, mask_path, key_color, key_hex,
                   gen_image_path, baked, calls, ffmpeg_cmd, output_written,
                   reported, status, result>>

KeyFor_AlwaysSynthesized(m, bg, bg_hex, img) ==
    IF m # "chromakey"
    THEN [color |-> NoColor, hex |-> NoHex, path |-> "source", baked |-> NoImage]
    ELSE LET k == FindKeyColor(img)
         IN  [color |-> k.color, hex |-> k.hex, path |-> "baked",
              baked |-> BakeBackground(img, k.color)]

(* lines 252-269: key_color, key_hex, gen_image_path and baked_bg.png *)
KeyFor(m, bg, bg_hex, img) ==
    IF m # "chromakey"
    THEN [color |-> NoColor, hex |-> NoHex, path |-> "source", baked |-> NoImage]
    ELSE IF bg # NoColor
    THEN [color |-> bg, hex |-> bg_hex, path |-> "source", baked |-> NoImage]
    ELSE LET k == FindKeyColor(img)
         IN  [color |-> k.color, hex |-> k.hex, path |-> "baked",
              baked |-> BakeBackground(img, k.color)]

(* lines 251-269 *)
PrepareKey ==
    /\ pc = "bake"
    /\ LET k == KeyFor(method, detected_bg, detected_hex, image)
       IN  /\ key_color' = k.color
           /\ key_hex' = k.hex
           /\ gen_image_path' = k.path
           /\ baked' = k.baked
    /\ pc' = "params"
    /\ UNCHANGED <<env, args, image, src_w, src_h, has_alpha, plan, method,
                   detected_bg, detected_hex, mask_path, tmpdirs, calls,
                   ffmpeg_cmd, output_written, reported, status, result>>

(* lines 274-298: an unknown model exits inside the try block *)
SelectModel ==
    /\ pc = "params"
    /\ IF args.model \in {"kling", "minimax"}
       THEN pc' = "generate" /\ UNCHANGED status
       ELSE Raise
    /\ UNCHANGED <<env, args, image, src_w, src_h, has_alpha, plan, method,
                   detected_bg, detected_hex, mask_path, tmpdirs, key_color,
                   key_hex, gen_image_path, baked, calls, ffmpeg_cmd,
                   output_written, reported, result>>

Call(svc, what, img, outcome) ==
    [svc |-> svc, what |-> what, image |-> img, outcome |-> outcome]

(* lines 300-301: replicate.run with the image at gen_image_path *)
Generate ==
    /\ pc = "generate"
    /\ \E outcome \in {"ok", "error"} :
          /\ calls' = Append(calls,
                 Call("generation",
                      IF args.model = "kling"
                      THEN (IF Loop THEN "kling-pro-loop" ELSE "kling-standard")
                      ELSE "minimax",
                      IF gen_image_path = "baked" THEN baked ELSE image,
                      outcome))
          /\ IF outcome = "ok" THEN pc' = "download" /\ UNCHANGED status
             ELSE Raise
    /\ UNCHANGED <<env, args, image, src_w, src_h, has_alpha, plan, method,
                   detected_bg, detected_hex, mask_path, tmpdirs, key_color,
                   key_hex, gen_image_path, baked, ffmpeg_cmd, output_written,
                   reported, result>>

(* lines 303-306 *)
DownloadGenerated ==
    /\ pc = "download"
    /\ \E outcome \in {"ok", "error"} :
          /\ calls' = Append(calls, Call("download", "generated.mp4", NoImage, outcome))
          /\ IF outcome = "ok" THEN pc' = "matte" /\ UNCHANGED status
             ELSE Raise
    /\ UNCHANGED <<env, args, image, src_w, src_h, has_alpha, plan, method,
                   detected_bg, detected_hex, mask_path, tmpdirs, key_color,
                   key_hex, gen_image_path, baked, ffmpeg_cmd, output_written,
                   reported, result>>

EncoderFailed_TimeoutOnly(outcome) == outcome = "timeout"

(* subprocess.run(..., timeout=...) raises TimeoutExpired; lines 327 and   *)
(* 409 exit on a non-zero return code                                      *)
EncoderFailed(outcome) == outcome # "ok"

EncoderOutcomes == {"ok", "nonzero", "timeout"}

(* lines 308-345: the mask clip is encoded, then the merge command built.  *)
(* The clip and the merge are scaled to the mask's own evened size, which  *)
(* the model does not carry.                                               *)
MaskClip ==
    /\ pc = "matte"
    /\ method = "mask"
    /\ \E outcome \in EncoderOutcomes :
          /\ calls' = Append(calls, Call("encoder", "mask.mp4", NoImage, outcome))
          /\ IF EncoderFailed(outcome)
             THEN Raise /\ UNCHANGED ffmpeg_cmd
             ELSE /\ ffmpeg_cmd' = [NoCmd EXCEPT !.kind = "mask"]
                  /\ pc' = "encode"
                  /\ UNCHANGED status
    /\ UNCHANGED <<env, args, image, src_w, src_h, has_alpha, plan, method,
                   detected_bg, detected_hex, mask_path, tmpdirs, key_color,
                   key_hex, gen_image_path, baked, output_written, reported,
                   result>>

(* lines 347-356: scale to the oversized size, crop to the crop size *)
BackgroundCmd ==
    /\ pc = "matte"
    /\ method = "background"
    /\ ffmpeg_cmd' = [kind |-> "background",
                      scale_w |-> plan.oversized_w, scale_h |-> plan.oversized_h,
                      crop_w |-> plan.crop_w, crop_h |-> plan.crop_h,
                      key |-> NoHex]
    /\ pc' = "encode"
    /\ UNCHANGED <<env, args, image, src_w, src_h, has_alpha, plan, method,
                   detected_bg, detected_hex, mask_path, tmpdirs, key_color,
                   key_hex, gen_image_path, baked, calls, output_written,
                   reported, status, result>>

(* lines 358-370: scale to the crop size, chromakey=key_hex *)
ChromakeyCmd ==
    /\ pc = "matte"
    /\ method = "chromakey"
    /\ ffmpeg_cmd' = [kind |-> "chromakey",
                      scale_w |-> plan.crop_w, scale_h |-> plan.crop_h,
                      crop_w |-> 0, crop_h |-> 0,
                      key |-> key_hex]
    /\ pc' = "encode"
    /\ UNCHANGED <<env, args, image, src_w, src_h, has_alpha, plan, method,
                   detected_bg, detected_hex, mask_path, tmpdirs, key_color,
                   key_hex, gen_image_path, baked, calls, output_written,
                   reported, status, result>>

(* lines 372-383: the else branch; replicate.run of the segmentation model *)
Sam3Segment ==
    /\ pc = "matte"
    /\ method \notin {"mask", "background", "chromakey"}
    /\ \E outcome \in {"ok", "error"} :
          /\ calls' = Append(calls, Call("segmentation", "sam3-video", NoImage, outcome))
          /\ IF outcome = "ok" THEN pc' = "sam3download" /\ UNCHANGED status
             ELSE Raise
    /\ UNCHANGED <<env, args, image, src_w, src_h, has_alpha, plan, method,
                   detected_bg, detected_hex, mask_path, tmpdirs, key_color,
                   key_hex, gen_image_path, baked, ffmpeg_cmd, output_written,
                   reported, result>>

(* lines 384-406 *)
Sam3Download ==
    /\ pc = "sam3download"
    /\ \E outcome \in {"ok", "error"} :
          /\ calls' = Append(calls, Call("download", "sam3_mask.mp4", NoImage, outcome))
          /\ IF outcome = "ok"
             THEN /\ ffmpeg_cmd' = [kind |-> "sam3",
                                    scale_w |-> plan.crop_w, scale_h |-> plan.crop_h,
                                    crop_w |-> 0, crop_h |-> 0,
                                    key |-> NoHex]
                  /\ pc' = "encode"
                  /\ UNCHANGED status
             ELSE Raise /\ UNCHANGED ffmpeg_cmd
    /\ UNCHANGED <<env, args, image, src_w, src_h, has_alpha, plan, method,
                   detected_bg, detected_hex, mask_path, tmpdirs, key_color,
                   key_hex, gen_image_path, baked, output_written, reported,
                   result>>

(* lines 408-411: the encoder writes output_path; a failed encoder may     *)
(* leave a partial file behind                                             *)
FinalEncode ==
    /\ pc = "encode"
    /\ \E outcome \in EncoderOutcomes :
          /\ calls' = Append(calls, Call("encoder", ffmpeg_cmd.kind, NoImage, outcome))
          /\ IF EncoderFailed(outcome)
             THEN Raise /\ output_written' \in BOOLEAN
             ELSE /\ output_written' = TRUE
                  /\ pc' = "report"
                  /\ UNCHANGED status
    /\ UNCHANGED <<env, args, image, src_w, src_h, has_alpha, plan, method,
                   detected_bg, detected_hex, mask_path, tmpdirs, key_color,
                   key_hex, gen_image_path, baked, ffmpeg_cmd, reported, result>>

(* lines 413-419: report and return output_path, through finally *)
Report ==
    /\ pc = "report"
    /\ reported' = TRUE
    /\ status' = "success"
    /\ pc' = "finally"
    /\ UNCHANGED <<env, args, image, src_w, src_h, has_alpha, plan, method,
                   detected_bg, detected_hex, mask_path, tmpdirs, key_color,
                   key_hex, gen_image_path, baked, calls, ffmpeg_cmd,
                   output_written, result>>

(* lines 421-422: shutil.rmtree(tmpdir, ignore_errors=True) *)
Finally ==
    /\ pc = "finally"
    /\ tmpdirs' = tmpdirs \ {"char-anim-"}
    /\ pc' = "done"
    /\ UNCHANGED <<env, args, image, src_w, src_h, has_alpha, plan, method,
                   detected_bg, detected_hex, mask_path, key_color, key_hex,
                   gen_image_path, baked, calls, ffmpeg_cmd, output_written,
                   reported, status, result>>

----------------------------------------------------------------------------
(* The runs of animate(): every combination of arguments and environment   *)
(* over a sample of source images.                                         *)

Px(c, a) == <<c[1], c[2], c[3], a>>

Cyan == Candidates[1]
Red == Candidates[4]

SampleImages ==
    { \* RGBA with a real cut-out
      [w |-> 2, h |-> 2, mode |-> "RGBA",
       px |-> <<Px(Cyan, 255), Px(White, 255), Px(Black, 0), Px(Red, 100)>>],
      \* RGBA, flat opaque alpha, solid white
      [w |-> 2, h |-> 2, mode |-> "RGBA",
       px |-> <<Px(White, 255), Px(White, 255), Px(White, 255), Px(NearWhite, 255)>>],
      \* RGBA, flat fully transparent alpha, busy border
      [w |-> 2, h |-> 2, mode |-> "RGBA",
       px |-> <<Px(White, 0), Px(Black, 0), Px(Cyan, 0), Px(Red, 0)>>],
      \* RGB, white border around a black pixel
      [w |-> 3, h |-> 3, mode |-> "RGB",
       px |-> <<Px(White, 255), Px(White, 255), Px(White, 255),
                Px(White, 255), Px(Black, 255), Px(White, 255),
                Px(White, 255), Px(White, 255), Px(White, 255)>>],
      \* RGB, busy border
      [w |-> 2, h |-> 2, mode |-> "RGB",
       px |-> <<Px(White, 255), Px(Black, 255), Px(Cyan, 255), Px(Red, 255)>>],
      \* RGB, one pixel wide
      [w |-> 1, h |-> 3, mode |-> "RGB",
       px |-> <<Px(White, 255), Px(Black, 255), Px(White, 255)>>] }

Init ==
    /\ env \in [token : BOOLEAN, ffmpeg : BOOLEAN, image_exists : BOOLEAN,
                mask : {"none", "missing", "rgba", "other"}]
    /\ args \in [asset_type : {"character", "background"},
                 method : {"auto", "chromakey", "sam3"},
                 model : {"kling", "minimax", "other"},
                 loop : {"None", "True", "False"},
                 mask : BOOLEAN]
    /\ args.mask <=> env.mask # "none"
    /\ image \in SampleImages
    /\ pc = "start"
    /\ src_w = 0 /\ src_h = 0
    /\ has_alpha = FALSE
    /\ plan = NoPlan
    /\ method = args.method
    /\ detected_bg = NoColor
    /\ detected_hex = NoHex
    /\ mask_path = IF args.mask THEN "given" ELSE "none"
    /\ tmpdirs = {}
    /\ key_color = NoColor
    /\ key_hex = NoHex
    /\ gen_image_path = "source"
    /\ baked = NoImage
    /\ calls = <<>>
    /\ ffmpeg_cmd = NoCmd
    /\ output_written = FALSE
    /\ reported = FALSE
    /\ status = "running"
    /\ result = NoResult

Next ==
    \/ CheckPreconditions
    \/ InspectAndResolve
    \/ CheckMask
    \/ PrepareMask
    \/ MakeTmpdir
    \/ PrepareKey
    \/ SelectModel
    \/ Generate
    \/ DownloadGenerated
    \/ MaskClip
    \/ BackgroundCmd
    \/ ChromakeyCmd
    \/ Sam3Segment
    \/ Sam3Download
    \/ FinalEncode
    \/ Report
    \/ Finally

Spec == Init /\ [][Next]_vars

----------------------------------------------------------------------------
(* Properties *)

Resolved == plan # NoPlan

HexVal(ch) == CHOOSE d \in 0..15 : HexDigits[d + 1] = ch

(* the colour a hex string 0xRRGGBB denotes *)
ParseHex(hex) ==
    IF Len(hex) = 8 /\ hex[1] = "0" /\ hex[2] = "x"
       /\ \A i \in 3..8 : \E d \in 0..15 : HexDigits[d + 1] = hex[i]
    THEN <<16 * HexVal(hex[3]) + HexVal(hex[4]),
           16 * HexVal(hex[5]) + HexVal(hex[6]),
           16 * HexVal(hex[7]) + HexVal(hex[8])>>
    ELSE NoColor

(* C1: whenever a mask path is supplied, the resolved method is mask, for  *)
(* every asset type, every requested method and every image.               *)
C1_MaskPathResolvesToMask ==
    (Resolved /\ args.mask) => method = "mask"

(* C2: with no mask path and asset type background, the resolved method is *)
(* background, for every requested method and every image.                 *)
C2_BackgroundResolvesToBackground ==
    (Resolved /\ ~args.mask /\ args.asset_type = "background")
        => method = "background"

(* the image has an alpha channel whose minimum differs from its maximum *)
RealTransparency(img) ==
    /\ img.mode = "RGBA"
    /\ \E i, j \in 1..Len(img.px) : img.px[i][4] # img.px[j][4]

C3_Expected(img) ==
    IF RealTransparency(img) THEN "chromakey"
    ELSE IF DetectSolidBackground(img).color # NoColor THEN "chromakey"
    ELSE "sam3"

NearestDiv255(out, v) ==
    /\ 2 * (255 * out - v) <= 255
    /\ 2 * (v - 255 * out) <= 255

(* img is src composited over the flat colour key *)
CompositedOver(img, src, key) ==
    /\ img.mode = "RGB" /\ img.w = src.w /\ img.h = src.h
    /\ Len(img.px) = Len(src.px)
    /\ \A i \in 1..Len(src.px) : \A ch \in 1..3 :
          NearestDiv255(img.px[i][ch],
                        key[ch] * (255 - src.px[i][4]) + src.px[i][ch] * src.px[i][4])

(* C4: at the chromakey encode step a key colour is defined; if the        *)
(* resolution detected a solid border colour, the colour-key filter uses   *)
(* exactly that colour and the generation service was sent the unmodified  *)
(* source; otherwise the key is the one find_key_color synthesizes and the *)
(* generation service was sent the source composited over it.              *)
C4_KeyProvenance ==
    ffmpeg_cmd.kind = "chromakey" =>
        /\ key_color # NoColor
        /\ key_hex # NoHex
        /\ ffmpeg_cmd.key = key_hex
        /\ ParseHex(ffmpeg_cmd.key) = key_color
        /\ calls # <<>> /\ calls[1].svc = "generation"
        /\ IF detected_bg # NoColor
           THEN /\ key_color = detected_bg
                /\ key_color = DetectSolidBackground(image).color
                /\ calls[1].image = image
           ELSE /\ key_color = FindKeyColor(image).color
                /\ CompositedOver(calls[1].image, image, key_color)

(* a run on an image with a real cut-out baked a synthesized key and       *)
(* reached the chromakey encode                                            *)
C4_Witness ==
    /\ ffmpeg_cmd.kind = "chromakey"
    /\ \E i \in 1..Len(calls) : calls[i].svc = "encoder" /\ calls[i].what = "chromakey"
    /\ RealTransparency(image)
    /\ detected_bg = NoColor
    /\ gen_image_path = "baked"
    /\ calls[1].image # image
    /\ \E i \in 1..Len(image.px) : image.px[i][4] = 0 /\ PixelAt(calls[1].image, (i - 1) % image.w, (i - 1) \div image.w) = key_color

(* the smallest even number that is at least x *)
EvenCeil(x) == CHOOSE e \in {x, x + 1} : e % 2 = 0

AxisAsClaimed(source, oversized, crop) ==
    LET cap == Min(source, MaxOutputSide)
    IN  /\ oversized % 2 = 0 /\ crop % 2 = 0
        /\ oversized >= crop /\ crop >= cap /\ cap > 0
        /\ crop = EvenCeil(cap)
        \* cap * 1.15 = 23 * cap / 20, rounded down or up, then up to even
        /\ oversized \in {EvenCeil((23 * cap) \div 20), EvenCeil((23 * cap + 19) \div 20)}

(* C5: for every source size, on each axis: oversized and crop are even,   *)
(* oversized >= crop >= min(source, 720) > 0, crop is the capped dimension *)
(* rounded up to even and oversized is the capped dimension times 1.15     *)
(* rounded up to even.                                                     *)
C5_GeometryAsClaimed ==
    pc = "returned" =>
        /\ AxisAsClaimed(src_w, plan.oversized_w, plan.crop_w)
        /\ AxisAsClaimed(src_h, plan.oversized_h, plan.crop_h)

(* what holds of the code on every axis: even, ordered, and within one of  *)
(* 1.15 times the capped dimension before the rounding up to even          *)
AxisOrdered(source, oversized, crop) ==
    LET cap == Min(source, MaxOutputSide)
    IN  /\ oversized % 2 = 0 /\ crop % 2 = 0
        /\ oversized >= crop /\ crop >= cap /\ cap > 0
        /\ crop = EvenCeil(cap)
        /\ 20 * oversized >= 23 * cap - 20
        /\ 20 * oversized <= 23 * cap + 20

GeometryOrdered ==
    pc = "returned" =>
        /\ AxisOrdered(src_w, plan.oversized_w, plan.crop_w)
        /\ AxisOrdered(src_h, plan.oversized_h, plan.crop_h)

Occupied(img) ==
    {<<img.px[i][1], img.px[i][2], img.px[i][3]>> :
        i \in {j \in 1..Len(img.px) : img.px[j][4] > AlphaThreshold}}

(* the least squared distance of candidate i to an occupied colour *)
MinSqTo(i, occ) ==
    CHOOSE d \in {DistSq(p, Candidates[i]) : p \in occ} :
        \A p \in occ : d <= DistSq(p, Candidates[i])

(* C6: find_key_color returns the palette candidate whose minimum distance *)
(* to the colours of pixels with alpha > 128 is largest, the earliest in   *)
(* palette order on a tie; a candidate equal to an occupied colour is not  *)
(* returned while another candidate has a positive minimum distance; with  *)
(* no such pixel it returns cyan; the hex string encodes the colour.       *)
C6_KeyColorIsMaximin ==
    pc = "returned" =>
        LET occ == Occupied(image)
        IN  /\ ParseHex(result.hex) = result.color
            /\ IF occ = {}
               THEN result.color = <<0, 255, 255>>
               ELSE \E i \in 1..Len(Candidates) :
                      /\ result.color = Candidates[i]
                      /\ \A j \in 1..Len(Candidates) : MinSqTo(j, occ) <= MinSqTo(i, occ)
                      /\ \A j \in 1..(i - 1) : MinSqTo(j, occ) < MinSqTo(i, occ)
                      /\ (result.color \in occ) =>
                            \A j \in 1..Len(Candidates) : MinSqTo(j, occ) = 0

(* the only occupied colour is cyan and the function returned red *)
C6_Witness ==
    /\ pc = "returned"
    /\ Occupied(image) = {<<0, 255, 255>>}
    /\ result.color = <<255, 0, 0>>
    /\ result.hex = <<"0", "x", "F", "F", "0", "0", "0", "0">>

BorderPositions(img) ==
    {q \in (0..(img.w - 1)) \X (0..(img.h - 1)) :
        q[1] = 0 \/ q[1] = img.w - 1 \/ q[2] = 0 \/ q[2] = img.h - 1}

BorderCount(img, c) ==
    Cardinality({q \in BorderPositions(img) : PixelAt(img, q[1], q[2]) = c})

MostFrequentBorderColors(img) ==
    {PixelAt(img, q[1], q[2]) : q \in
        {q \in BorderPositions(img) :
            \A o \in BorderPositions(img) :
                BorderCount(img, PixelAt(img, o[1], o[2]))
                    <= BorderCount(img, PixelAt(img, q[1], q[2]))}}

BorderRule(img, d) ==
    LET close == Cardinality({q \in BorderPositions(img) :
                     DistSq(PixelAt(img, q[1], q[2]), d) <= Tolerance * Tolerance})
    IN  IF MinEdgeRatioDen * close >= MinEdgeRatioNum * Cardinality(BorderPositions(img))
        THEN d ELSE NoColor

(* C7: detect_solid_background reports the most frequent exact border      *)
(* colour iff the share of border pixels within the tolerance of it is at  *)
(* least the minimum ratio, every border position counted exactly once     *)
(* (also in images one pixel wide or high); otherwise it reports absence.  *)
C7_DetectorCountsBorderOnce ==
    pc = "returned" =>
        result.color \in {BorderRule(image, d) : d \in MostFrequentBorderColors(image)}

(* C8: when a run ends, by success or by any failure, no temporary         *)
(* directory it created still exists.                                      *)
C8_NoTempDirLeft ==
    pc = "done" => tmpdirs = {}

PreconditionUnmet ==
    \/ ~env.token
    \/ ~env.ffmpeg
    \/ ~env.image_exists
    \/ (args.mask /\ env.mask = "missing")

(* C9: if a precondition is unmet (credential, encoder, image file, mask   *)
(* file), the run ends in failure before any call to the generation        *)
(* service, the segmentation service or the encoder, and writes no output. *)
C9_PreconditionFailureStopsEarly ==
    PreconditionUnmet =>
        /\ calls = <<>>
        /\ ~output_written
        /\ ~reported
        /\ pc \in {"start", "inspect", "maskcheck", "done"}
        /\ pc = "done" => status = "failure"

(* a run whose only unmet precondition is the mask file ended in failure *)
C9_Witness ==
    /\ pc = "done" /\ status = "failure"
    /\ env.token /\ env.ffmpeg /\ env.image_exists
    /\ args.mask /\ env.mask = "missing"
    /\ Resolved

=============================================================================
